---- MODULE Spec2Model ----
(***************************************************************************)
(* REGO X policy generator (app.py): a Streamlit script that is re-run     *)
(* from top to bottom on every widget event.  The model has one action per *)
(* user event; each action is one complete run of the script.              *)
(*                                                                         *)
(* A text is a sequence of strings whose concatenation is the Python       *)
(* string.  Texts typed by the user or returned by the completion service  *)
(* are sequences of one-character strings; the literal pieces of the       *)
(* prompt template are kept as whole strings.                              *)
(***************************************************************************)
EXTENDS Naturals, Sequences, FiniteSets

VARIABLES
  GROQ_API_KEY,    \* the credential in the environment: "valid", "invalid", "missing"
  session_state,   \* st.session_state: a function from slot names to texts
  user_prompt,     \* value of the description text area
  selected_model,  \* value of the model select box
  page,            \* what the last script run rendered
  sent,            \* the requests the last script run issued to the completion service
  event,           \* the user event that caused the last script run, with the service's answer
  last_success,    \* the text displayed by the most recent successful generation
  arg,             \* input of a pure function under check
  result           \* its output

vars == <<GROQ_API_KEY, session_state, user_prompt, selected_model, page, sent,
          event, last_success, arg, result>>

-----------------------------------------------------------------------------
(* Optional values (Python None / a missing element). *)

None == <<>>

Some(x) == <<x>>

-----------------------------------------------------------------------------
(* Bounds of the model. *)

\* longest description typed into the text area
MaxDescLen == 2

\* most chunks concatenated into a text handed to the output inspection
MaxChunks == 3

-----------------------------------------------------------------------------
(* Python string operations. *)

\* the characters str.strip() removes that occur in the model's texts
Whitespace == {" ", "\t", "\n", "\r", "\f"}

RECURSIVE LStrip(_)
LStrip(s) ==
  IF s # <<>> /\ Head(s) \in Whitespace THEN LStrip(Tail(s)) ELSE s

RECURSIVE RStrip(_)
RStrip(s) ==
  IF s # <<>> /\ s[Len(s)] \in Whitespace
    THEN RStrip(SubSeq(s, 1, Len(s) - 1))
    ELSE s

\* str.strip()
Strip(s) == RStrip(LStrip(s))

\* str.find(pat, i): the first index >= i where pat occurs in text, 0 when none
RECURSIVE Find(_, _, _)
Find(text, pat, i) ==
  IF i + Len(pat) - 1 > Len(text) THEN 0
  ELSE IF SubSeq(text, i, i + Len(pat) - 1) = pat THEN i
  ELSE Find(text, pat, i + 1)

\* pat in text
Contains(text, pat) == Find(text, pat, 1) # 0

\* text.count(pat) for a non-empty pat: occurrences scanned left to right,
\* each search resuming after the end of the previous occurrence
RECURSIVE CountFrom(_, _, _)
CountFrom(text, pat, i) ==
  LET j == Find(text, pat, i)
  IN  IF j = 0 THEN 0 ELSE 1 + CountFrom(text, pat, j + Len(pat))

Count(text, pat) == CountFrom(text, pat, 1)

-----------------------------------------------------------------------------
(* Constants of app.py. *)

\* faulty variant of MODEL_OPTIONS: the third entry is another model
MODEL_OPTIONS_Mixtral ==
  << "llama3-8b-8192", "llama3-70b-8192", "mixtral-8x7b-32768" >>

MODEL_OPTIONS ==
  << "llama3-8b-8192", "llama3-70b-8192", "deepseek-r1-distill-llama-70b" >>

\* temperature=0.2
TEMPERATURE == "0.2"

SYSTEM_MESSAGE ==
  "You are an expert REGO policy writer. Output only valid REGO code."

\* The seven examples of few_shot_examples: for each, the text after
\* "Policy Description:" and the text after "REGO Policy:".
ExampleBank ==
  << [number |-> "1",
      description |->
        "Allow access to users with the role \"admin\".",
      policy_text |->
        "package authz\n\ndefault allow = false\n\nallow {\n    input.role == \"admin\"\n}"],
     [number |-> "2",
      description |->
        "Deny all IP addresses not in the allowed list.",
      policy_text |->
        "package network\n\ndefault allow = false\n\nallow {\n    input.ip == \"192.168.1.1\"\n} {\n    input.ip == \"10.0.0.2\"\n}"],
     [number |-> "3",
      description |->
        "Approve requests only if the request time is between 9AM and 5PM.",
      policy_text |->
        "package timebased\n\ndefault allow = false\n\nallow {\n    input.time >= 9\n    input.time <= 17\n}"],
     [number |-> "4",
      description |->
        "Complex hierarchical authorization - Allow access if user is either:\n1. An admin in any department, OR\n2. A manager in the same department as the resource",
      policy_text |->
        "package hierarchical_authz\n\ndefault allow = false\n\nallow {\n    input.user.roles[_] == \"admin\"\n} {\n    input.user.roles[_] == \"manager\"\n    input.user.department == input.resource.department\n}"],
     [number |-> "5",
      description |->
        "Validate JWT tokens with RS256 signature and check claims:\n1. Token must be valid and not expired\n2. Audience must match our service\n3. Must have either \"read:data\" or \"write:data\" scope",
      policy_text |->
        "package jwt_authz\n\nimport future.keywords.in\n\ndefault allow = false\n\nallow {\n    [valid, _, _] := io.jwt.decode_verify(input.jwt, {\n        \"cert\": input.cert,\n        \"alg\": \"RS256\"\n    })\n    valid\n    now := time.now_ns() / 1000000000\n    payload := io.jwt.decode(input.jwt)[1]\n    payload.exp >= now\n    payload.aud == \"my-service\"\n    valid_scopes(payload.scope)\n}\n\nvalid_scopes(scopes) {\n    scopes[_] == \"read:data\"\n} {\n    scopes[_] == \"write:data\"\n}"],
     [number |-> "6",
      description |->
        "Resource quota enforcement with tiered access:\n1. Free tier: max 5 resources, each <1GB\n2. Pro tier: max 50 resources, each <10GB\n3. Enterprise tier: unlimited",
      policy_text |->
        "package quota\n\nimport future.keywords.in\n\ndefault violation = null\n\nviolation[\"Free tier exceeded resource limit\"] {\n    input.tier == \"free\"\n    count(input.resources) > 5\n}\n\nviolation[\"Free tier exceeded size limit\"] {\n    input.tier == \"free\"\n    resource := input.resources[_]\n    resource.size > 1000000000  # 1GB in bytes\n}\n\nviolation[\"Pro tier exceeded resource limit\"] {\n    input.tier == \"pro\"\n    count(input.resources) > 50\n}\n\nviolation[\"Pro tier exceeded size limit\"] {\n    input.tier == \"pro\"\n    resource := input.resources[_]\n    resource.size > 10000000000  # 10GB in bytes\n}"],
     [number |-> "7",
      description |->
        "Complex workflow approval requiring:\n1. At least 2 approvers from different teams\n2. No conflicts of interest (approver not in same team as requester)\n3. Budget under $10k OR CEO approval if over",
      policy_text |->
        "package workflow\n\nimport future.keywords.in\n\ndefault approved = false\n\napproved {\n    count(input.approvals) >= 2\n    different_team_approvals\n    no_conflicts_of_interest\n    valid_budget\n}\n\ndifferent_team_approvals {\n    approver1 := input.approvals[_]\n    approver2 := input.approvals[_]\n    approver1 != approver2\n    approver1.team != approver2.team\n}\n\nno_conflicts_of_interest {\n    not input.approvals[_].team == input.requester.team\n}\n\nvalid_budget {\n    input.budget <= 10000\n} {\n    input.budget > 10000\n    input.approvals[_].title == \"CEO\"\n}"] >>

\* one example as it is written in few_shot_examples
RenderExample(i) ==
  << "Example ", ExampleBank[i].number, ":\nPolicy Description:\n",
     ExampleBank[i].description,
     "\n\nREGO Policy:\n",
     ExampleBank[i].policy_text,
     "\n" >>

RECURSIVE RenderExamples(_)
RenderExamples(n) ==
  IF n = 1 THEN RenderExample(1)
  ELSE RenderExamples(n - 1) \o << "\n---\n\n" >> \o RenderExample(n)

few_shot_examples == << "\n" >> \o RenderExamples(Len(ExampleBank))

RoleInstruction ==
  "\nYou are a cybersecurity expert specializing in Open Policy Agent (OPA) and REGO policies.\n\n"

ExamplesIntro ==
  "Use the following examples to understand the style and structure.\n\n"

GuidelinesIntro ==
  "\n\nNow, based on this new Policy Description, generate a REGO policy.\nFollow these guidelines:\n"

Guidelines ==
  << "1. Include proper package declaration\n",
     "2. Set default allow = false when appropriate\n",
     "3. Use clear, descriptive rule names\n",
     "4. Include all necessary conditions\n",
     "5. Format for readability\n" >>

ClosingInstruction ==
  "\nOnly output the REGO code block. No explanation, no extra text.\n\n"

DescriptionHeader == "Policy Description:\n"

\* a line holding the three double quotes that wrap the description
DelimiterLine == "\"\"\"\n"

\* faulty variant of Compose: the description is trimmed before it is embedded
ComposeStripped(description) ==
  << RoleInstruction, ExamplesIntro >>
    \o few_shot_examples
    \o << GuidelinesIntro >> \o Guidelines
    \o << ClosingInstruction, DescriptionHeader, DelimiterLine >>
    \o Strip(description)
    \o << "\n", DelimiterLine >>

\* full_prompt: the f-string with few_shot_examples and user_prompt interpolated
Compose(description) ==
  << RoleInstruction, ExamplesIntro >>
    \o few_shot_examples
    \o << GuidelinesIntro >> \o Guidelines
    \o << ClosingInstruction, DescriptionHeader, DelimiterLine >>
    \o description
    \o << "\n", DelimiterLine >>

-----------------------------------------------------------------------------
(* The policy analysis of the generated text. *)

DefaultDenyPattern ==
  <<"d", "e", "f", "a", "u", "l", "t", " ", "a", "l", "l", "o", "w", " ", "=",
    " ", "f", "a", "l", "s", "e">>

PackagePattern == <<"p", "a", "c", "k", "a", "g", "e", " ">>

InputPattern == <<"i", "n", "p", "u", "t", ".">>

\* faulty variant of Inspect: the package keyword is searched without the
\* space that follows it
InspectLoosePackage(output) ==
  [ default_deny     |-> Contains(output, DefaultDenyPattern),
    package_declared |-> Contains(output, <<"p", "a", "c", "k", "a", "g", "e">>),
    input_checks     |-> Count(output, InputPattern) ]

Inspect(output) ==
  [ default_deny     |-> Contains(output, DefaultDenyPattern),
    package_declared |-> Contains(output, PackagePattern),
    input_checks     |-> Count(output, InputPattern) ]

-----------------------------------------------------------------------------
(* The completion service, as the script sees it. *)

\* what client.chat.completions.create does: raise, or return a response
Raise(e) == [kind |-> "raise", error |-> e, choices |-> <<>>]

Response(choices) == [kind |-> "response", error |-> "none", choices |-> choices]

\* a choice whose message content is c: None or Some(text)
Choice(c) == [message |-> [content |-> c]]

NoOutcome == [kind |-> "none", error |-> "none", choices |-> <<>>]

\* failures of the call itself
ServiceErrors == {"APIConnectionError", "RateLimitError"}

PackageXText ==
  <<"p", "a", "c", "k", "a", "g", "e", " ", "x", "\n", "d", "e", "f", "a", "u",
    "l", "t", " ", "a", "l", "l", "o", "w", " ", "=", " ", "f", "a", "l", "s",
    "e">>

\* the character U+0060 of a code fence, which a TLA+ string cannot hold
Backtick == "U+0060"

FencedText ==
  <<Backtick, Backtick, Backtick, "r", "e", "g", "o", "\n", "i", "n", "p", "u",
    "t", ".", "a", "\n", Backtick, Backtick, Backtick>>

TwoInputsText ==
  <<"i", "n", "p", "u", "t", ".", "x", " ", "=", "=", " ", "i", "n", "p", "u",
    "t", ".", "y">>

\* message contents the service returns in the model: a core text, possibly
\* with whitespace before and after it
Cores == {PackageXText, FencedText, TwoInputsText, <<>>}

LeadPads == {<<>>, <<"\n">>, <<" ", "\n">>}

TrailPads == {<<>>, <<"\n", " ">>}

Contents == {l \o c \o r : l \in LeadPads, c \in Cores, r \in TrailPads}

Outcomes(key) ==
  IF key = "invalid" THEN {Raise("AuthenticationError")}
  ELSE {Raise(e) : e \in ServiceErrors}
         \cup {Response(<<>>), Response(<<Choice(None)>>)}
         \cup {Response(<<Choice(Some(c))>>) : c \in Contents}
         \cup {Response(<<Choice(Some(c)), Choice(Some(TwoInputsText))>>)
                 : c \in {PackageXText, FencedText}}

-----------------------------------------------------------------------------
(* One run of the script. *)

\* a page on which nothing has been rendered yet
BlankPage ==
  [ widgets   |-> FALSE,   \* select box, text area and button are on the page
    warning   |-> FALSE,   \* st.warning("Please enter a policy description.")
    error     |-> FALSE,   \* an error message rendered by the script itself
    code      |-> None,    \* st.code(output)
    toast     |-> FALSE,   \* st.toast("Policy generated successfully!")
    analysis  |-> None,    \* the Policy Analysis expander
    download  |-> None,    \* st.download_button
    exception |-> "none" ] \* the exception that ended the run, if any

\* the outcome of a run: the session state it leaves, the page, the requests
Run(ss, pg, reqs) == [session_state |-> ss, page |-> pg, sent |-> reqs]

\* faulty variant of Abort: the error path drops the stored result
AbortClearing(ss, pg, reqs, exc) ==
  [ session_state |-> [k \in DOMAIN ss \ {"generated_rego"} |-> ss[k]],
    page          |-> [pg EXCEPT !.exception = exc],
    sent          |-> reqs ]

\* an exception leaves the script: the statements after it are not executed
Abort(ss, pg, reqs, exc) == Run(ss, [pg EXCEPT !.exception = exc], reqs)

\* faulty variant of DownloadSection: a line break is appended to the file
DownloadSectionNewline(ss, pg) ==
  IF "generated_rego" \in DOMAIN ss
    THEN [pg EXCEPT !.download =
            Some([ data      |-> Append(ss["generated_rego"], "\n"),
                   file_name |-> "generated_policy.rego",
                   mime      |-> "text/plain" ])]
    ELSE pg

\* if "generated_rego" in st.session_state: st.download_button(...)
DownloadSection(ss, pg) ==
  IF "generated_rego" \in DOMAIN ss
    THEN [pg EXCEPT !.download =
            Some([ data      |-> ss["generated_rego"],
                   file_name |-> "generated_policy.rego",
                   mime      |-> "text/plain" ])]
    ELSE pg

\* the run goes on to the end of the script
Finish(ss, pg, reqs) == Run(ss, DownloadSection(ss, pg), reqs)

\* faulty variant of IsBlank: the description is not trimmed before the test
IsBlankNoStrip(description) == description = <<>>

\* not user_prompt.strip()
IsBlank(description) == Strip(description) = <<>>

\* the arguments of client.chat.completions.create
Request(model, description) ==
  [ model       |-> model,
    messages    |-> << [role |-> "system", content |-> << SYSTEM_MESSAGE >>],
                       [role |-> "user", content |-> Compose(description)] >>,
    temperature |-> TEMPERATURE ]

\* faulty variant of Create: a request that fails is sent a second time
CreateWithRetry(request, outcome) ==
  IF outcome.kind = "raise" THEN << request, request >> ELSE << request >>

\* the requests one call of client.chat.completions.create sends
Create(request, outcome) == << request >>

\* faulty variant of Output: only the leading whitespace is removed
OutputLStrip(content) == LStrip(content)

\* chat_completion.choices[0].message.content.strip()
Output(content) == Strip(content)

\* st.session_state["generated_rego"] = output
Store(ss, output) ==
  [k \in DOMAIN ss \cup {"generated_rego"} |->
     IF k = "generated_rego" THEN output ELSE ss[k]]

\* the body of: if st.button("Generate REGO Policy", type="primary")
Handler(ss, pg, description, model, outcome) ==
  IF IsBlank(description)
    THEN Finish(ss, [pg EXCEPT !.warning = TRUE], <<>>)
    ELSE
      LET reqs == Create(Request(model, description), outcome)
      IN  IF outcome.kind = "raise"
            THEN Abort(ss, pg, reqs, outcome.error)
          ELSE IF outcome.choices = <<>>
            THEN Abort(ss, pg, reqs, "IndexError")
          ELSE IF outcome.choices[1].message.content = None
            THEN Abort(ss, pg, reqs, "AttributeError")
          ELSE
            LET output == Output(outcome.choices[1].message.content[1])
            IN  Finish(Store(ss, output),
                       [pg EXCEPT !.code = Some(output),
                                  !.toast = TRUE,
                                  !.analysis = Some(Inspect(output))],
                       reqs)

\* the whole script; button is the value st.button returns in this run.
\* Groq(api_key=None) at the top of the script raises when the environment
\* holds no key, before any widget is rendered.
Script(key, button, ss, description, model, outcome) ==
  IF key = "missing"
    THEN Abort(ss, BlankPage, <<>>, "GroqError")
    ELSE
      LET pg == [BlankPage EXCEPT !.widgets = TRUE]
      IN  IF button
            THEN Handler(ss, pg, description, model, outcome)
            ELSE Finish(ss, pg, <<>>)

-----------------------------------------------------------------------------
(* The session: the user's events, each followed by a run of the script. *)

\* the characters of the descriptions typed in the model
DescChars == {" ", "a", "\""}

RECURSIVE SeqsUpTo(_, _)
SeqsUpTo(S, n) ==
  IF n = 0 THEN {<<>>}
  ELSE LET shorter == SeqsUpTo(S, n - 1)
       IN  shorter \cup {Append(s, c) : s \in shorter, c \in S}

Descriptions == SeqsUpTo(DescChars, MaxDescLen)

Credentials == {"valid", "invalid", "missing"}

Rerun(kind, button, description, model, outcome) ==
  LET run == Script(GROQ_API_KEY, button, session_state, description, model, outcome)
  IN  /\ session_state' = run.session_state
      /\ page' = run.page
      /\ sent' = run.sent
      /\ event' = [kind |-> kind, outcome |-> outcome]
      /\ last_success' = IF run.page.code # None THEN run.page.code ELSE last_success
      /\ user_prompt' = description
      /\ selected_model' = model
      /\ UNCHANGED <<GROQ_API_KEY, arg, result>>

Init ==
  /\ GROQ_API_KEY \in Credentials
  /\ session_state = <<>>
  /\ user_prompt = <<>>
  /\ selected_model = MODEL_OPTIONS[1]
  /\ page = Script(GROQ_API_KEY, FALSE, <<>>, <<>>, MODEL_OPTIONS[1], NoOutcome).page
  /\ sent = <<>>
  /\ event = [kind |-> "load", outcome |-> NoOutcome]
  /\ last_success = None
  /\ arg = <<>>
  /\ result = None

\* the user changes the text of the description
EditDescription ==
  /\ page.widgets
  /\ \E d \in Descriptions \ {user_prompt} :
       Rerun("edit", FALSE, d, selected_model, NoOutcome)

\* the user picks another model in the select box
SelectModel ==
  /\ page.widgets
  /\ \E i \in 1..Len(MODEL_OPTIONS) :
       /\ MODEL_OPTIONS[i] # selected_model
       /\ Rerun("select", FALSE, user_prompt, MODEL_OPTIONS[i], NoOutcome)

\* the user presses "Generate REGO Policy"
ClickGenerate ==
  /\ page.widgets
  /\ \E outcome \in Outcomes(GROQ_API_KEY) :
       Rerun("generate", TRUE, user_prompt, selected_model, outcome)

\* the user presses the download button
ClickDownload ==
  /\ page.download # None
  /\ Rerun("download", FALSE, user_prompt, selected_model, NoOutcome)

Next == EditDescription \/ SelectModel \/ ClickGenerate \/ ClickDownload

Spec == Init /\ [][Next]_vars

-----------------------------------------------------------------------------
(* The policy analysis on its own: a text is drawn, then inspected. *)

InspectChunks ==
  { InputPattern, PackagePattern, DefaultDenyPattern,
    <<"p", "a", "c", "k", "a", "g", "e">>, <<"i", "n", "p">>, <<"x">>, <<" ">> }

RECURSIVE Concatenations(_, _)
Concatenations(S, n) ==
  IF n = 0 THEN {<<>>}
  ELSE LET shorter == Concatenations(S, n - 1)
       IN  shorter \cup {s \o c : s \in shorter, c \in S}

InspectTexts == Concatenations(InspectChunks, MaxChunks)

InitInspect ==
  /\ GROQ_API_KEY = "valid"
  /\ session_state = <<>>
  /\ user_prompt = <<>>
  /\ selected_model = MODEL_OPTIONS[1]
  /\ page = Script("valid", FALSE, <<>>, <<>>, MODEL_OPTIONS[1], NoOutcome).page
  /\ sent = <<>>
  /\ event = [kind |-> "load", outcome |-> NoOutcome]
  /\ last_success = None
  /\ arg \in InspectTexts
  /\ result = None

InspectText ==
  /\ result = None
  /\ result' = Some(Inspect(arg))
  /\ UNCHANGED <<GROQ_API_KEY, session_state, user_prompt, selected_model, page,
                 sent, event, last_success, arg>>

NextInspect == InspectText

SpecInspect == InitInspect /\ [][NextInspect]_vars

-----------------------------------------------------------------------------
(* Properties. *)

\* the slot of session_state, None when it is absent
Slot(ss) == IF "generated_rego" \in DOMAIN ss THEN Some(ss["generated_rego"]) ELSE None

\* the last run was a press of the button with this kind of description
Generated == event.kind = "generate"

NonEmpty(description) == Strip(description) # <<>>

\* the service's answer made the run fail: the call raised, or the response
\* has no choice, or its first choice has no content
Failed(outcome) ==
  \/ outcome.kind = "raise"
  \/ /\ outcome.kind = "response"
     /\ \/ outcome.choices = <<>>
        \/ outcome.choices[1].message.content = None

\* C1: a press of the button with an empty or whitespace-only description
\* sends no request, ends with the validation warning and no exception, and
\* leaves the slot 'generated_rego' as it was before the press.
C1_BlankDescriptionRejected ==
  [][ (event'.kind = "generate" /\ ~NonEmpty(user_prompt'))
        => /\ sent' = <<>>
           /\ page'.warning
           /\ page'.exception = "none"
           /\ page'.code = None
           /\ Slot(session_state') = Slot(session_state) ]_vars

C1_Witness ==
  /\ Generated
  /\ user_prompt = <<" ", " ">>
  /\ page.warning
  /\ sent = <<>>
  /\ Slot(session_state) = Some(PackageXText)

\* C2: when the completion call raises during a press of the button with a
\* non-empty description, session_state is exactly what it was before the
\* press, whether the slot held a result or was absent.
C2_FailureLeavesSlot ==
  [][ (event'.kind = "generate" /\ NonEmpty(user_prompt')
         /\ event'.outcome.kind = "raise")
        => session_state' = session_state ]_vars

C2_Witness ==
  /\ Generated
  /\ NonEmpty(user_prompt)
  /\ event.outcome = Raise("APIConnectionError")
  /\ sent # <<>>
  /\ Slot(session_state) = Some(FencedText)

\* C3: every failure during a press of the button is caught by the script and
\* shown as an error message of that press; no exception leaves the handler.
C3_FailuresCaught ==
  (Generated /\ NonEmpty(user_prompt) /\ Failed(event.outcome))
    => (page.exception = "none" /\ page.error)

\* C4: whenever the download is offered, its content is the text of the most
\* recent successful generation, unchanged, its file name is
\* 'generated_policy.rego' and its MIME type 'text/plain'.
C4_DownloadIsLastResult ==
  page.download # None
    => /\ last_success # None
       /\ page.download[1].data = last_success[1]
       /\ page.download[1].file_name = "generated_policy.rego"
       /\ page.download[1].mime = "text/plain"

C4_Witness ==
  /\ page.download # None
  /\ page.download[1].data = FencedText
  /\ event.kind = "download"

\* the indices at which a piece occurs in a text
Positions(text, piece) == {i \in 1..Len(text) : text[i] = piece}

\* the first index of a piece that occurs in a text
Index(text, piece) ==
  CHOOSE i \in Positions(text, piece) : \A j \in Positions(text, piece) : i <= j

\* the prompt p embeds the description d as C5 says
Embeds(p, d) ==
  LET n == Len(p)
      k == n - Len(d) - 1     \* where the description starts
      policy(e) == ExampleBank[e].policy_text
      sections == << RoleInstruction, policy(1), policy(2), policy(3), policy(4),
                     policy(5), policy(6), policy(7), GuidelinesIntro,
                     Guidelines[1], Guidelines[2], Guidelines[3], Guidelines[4],
                     Guidelines[5], ClosingInstruction >>
  IN  /\ Len(ExampleBank) = 7
      /\ \A x \in 1..Len(sections) : Positions(p, sections[x]) # {}
      /\ \A x \in 1..(Len(sections) - 1) :
           Index(p, sections[x]) < Index(p, sections[x + 1])
      /\ Index(p, ClosingInstruction) < k - 1
      /\ p[k - 1] = "\"\"\"\n"
      /\ SubSeq(p, k, n - 2) = d
      /\ p[n - 1] = "\n"
      /\ p[n] = "\"\"\"\n"

\* C5: the prompt of every request holds, in this order, the role
\* instruction, the policy texts of examples 1 to 7, the guidelines, the
\* closing instruction and, as its last section, the description exactly as
\* typed (not trimmed, nothing removed) between two lines of three double
\* quotes.
C5_PromptEmbedsDescription ==
  \A i \in 1..Len(sent) :
    /\ sent[i].messages[2].role = "user"
    /\ Embeds(sent[i].messages[2].content, user_prompt)

C5_Witness ==
  /\ sent # <<>>
  /\ user_prompt = <<" ", "\"">>
  /\ Embeds(sent[1].messages[2].content, <<" ", "\"">>)

\* the indices at which the pattern pat starts in a text
Occurrences(text, pat) ==
  {i \in 1..Len(text) :
     i + Len(pat) - 1 <= Len(text) /\ SubSeq(text, i, i + Len(pat) - 1) = pat}

\* the largest number of occurrences of pat in a text no two of which overlap
NonOverlapping(text, pat) ==
  LET apart(S) == \A i \in S : \A j \in S : i < j => i + Len(pat) <= j
      sizes == {Cardinality(S) : S \in {T \in SUBSET Occurrences(text, pat) : apart(T)}}
  IN  CHOOSE m \in sizes : \A x \in sizes : x <= m

\* the features C6 and C7 expect for a text
Features(text) ==
  [ default_deny     |-> Occurrences(text, DefaultDenyPattern) # {},
    package_declared |-> Occurrences(text, PackagePattern) # {},
    input_checks     |-> NonOverlapping(text, InputPattern) ]

\* raw is content without its leading and trailing whitespace, the rest as it is
TrimOf(raw, content) ==
  \E i \in 1..(Len(content) + 1) : \E j \in 0..Len(content) :
    /\ raw = SubSeq(content, i, j)
    /\ \A k \in 1..(i - 1) : content[k] \in Whitespace
    /\ \A k \in (j + 1)..Len(content) : content[k] \in Whitespace
    /\ raw # <<>> => (raw[1] \notin Whitespace /\ raw[Len(raw)] \notin Whitespace)

\* the response holds a first choice with a text
Succeeded(outcome) ==
  /\ outcome.kind = "response"
  /\ outcome.choices # <<>>
  /\ outcome.choices[1].message.content # None

\* C6: after a successful completion for a non-empty description, the text
\* displayed and stored is the content of the first choice without its leading
\* and trailing whitespace, the features shown are those of that text, and
\* for the content "package x\ndefault allow = false" the text is that
\* content and default-deny and package-declared are both true.
C6_RawTextIsTrimmedContent ==
  (Generated /\ NonEmpty(user_prompt) /\ Succeeded(event.outcome))
    => LET content == event.outcome.choices[1].message.content[1]
       IN  /\ page.code # None
           /\ TrimOf(page.code[1], content)
           /\ Slot(session_state) = page.code
           /\ page.analysis = Some(Features(page.code[1]))
           /\ content = PackageXText
                => /\ page.code[1] = PackageXText
                   /\ page.analysis[1].default_deny
                   /\ page.analysis[1].package_declared

C6_Witness ==
  /\ Generated
  /\ NonEmpty(user_prompt)
  /\ Succeeded(event.outcome)
  /\ event.outcome.choices[1].message.content[1]
       = <<" ", "\n">> \o PackageXText \o <<"\n", " ">>
  /\ page.code = Some(PackageXText)
  /\ page.analysis[1].default_deny

\* C7: for every text, the empty one included, the inspection reports
\* default-deny exactly when the text contains 'default allow = false',
\* package-declared exactly when it contains 'package ', and as the input-check
\* count the number of non-overlapping occurrences of 'input.'; on the empty
\* text it reports false, false and 0.
C7_InspectReportsSubstrings ==
  result # None
    => /\ result[1] = Features(arg)
       /\ arg = <<>> => result[1] = [ default_deny |-> FALSE,
                                      package_declared |-> FALSE,
                                      input_checks |-> 0 ]
       /\ arg = DefaultDenyPattern => result[1].default_deny

C7_Witness ==
  /\ result # None
  /\ arg = InputPattern \o <<"p", "a", "c", "k", "a", "g", "e">> \o InputPattern
  /\ result[1] = [ default_deny |-> FALSE,
                   package_declared |-> FALSE,
                   input_checks |-> 2 ]

\* the three supported model identifiers
SupportedModels ==
  {"llama3-8b-8192", "llama3-70b-8192", "deepseek-r1-distill-llama-70b"}

\* C8: every request carries one of the three supported model identifiers and
\* the temperature 0.2; the selector offers exactly these three.
C8_RequestsUseSupportedModel ==
  /\ Len(MODEL_OPTIONS) = 3
  /\ {MODEL_OPTIONS[i] : i \in 1..Len(MODEL_OPTIONS)} = SupportedModels
  /\ selected_model \in SupportedModels
  /\ \A i \in 1..Len(sent) :
       /\ sent[i].model \in SupportedModels
       /\ sent[i].model = selected_model
       /\ sent[i].temperature = "0.2"

C8_Witness ==
  /\ sent # <<>>
  /\ sent[1].model = "deepseek-r1-distill-llama-70b"
  /\ sent[1].temperature = "0.2"

\* C9: a press of the button sends exactly one request when the description
\* is non-empty after trimming, also when that request fails, and none when
\* it is empty; no other event sends a request.
C9_OneRequestPerAction ==
  Len(sent) = IF Generated /\ NonEmpty(user_prompt) THEN 1 ELSE 0

C9_Witness ==
  /\ Generated
  /\ event.outcome = Raise("RateLimitError")
  /\ Len(sent) = 1

\* C10: the download is offered exactly when some generation has succeeded
\* in the session, and then carries the text of the last successful
\* generation, also after a press that was rejected or that failed.
C10_DownloadOfferedOnceSucceeded ==
  /\ page.download # None <=> last_success # None
  /\ page.download # None => page.download[1].data = last_success[1]

====
